---- MODULE Spec2Model ----
(***************************************************************************)
(* Model of src/index.ts: the AirQualitySensor accessory.                   *)
(*                                                                         *)
(* The accessory discovers an AirGradient monitor by its Bonjour name,      *)
(* polls its /measures/current endpoint on a repeating timer, pushes the    *)
(* values to five HomeKit characteristics and answers characteristic reads  *)
(* from them while isConnected holds.                                       *)
(*                                                                         *)
(* Node runs every callback to completion, so each callback is one action;  *)
(* pollAirGradient is split at its single await into PollStart (the part    *)
(* run by the caller) and PollResolve / PollReject (the continuation).      *)
(* Numbers with a fractional part are counted in tenths: Tenths(55, 4) is   *)
(* 55.4.                                                                    *)
(***************************************************************************)
EXTENDS Integers, Sequences, FiniteSets, TLC

VARIABLES
    deviceUrl,         \* this.deviceUrl: <<>> while undefined
    firmwareVersion,   \* this.firmwareVersion: Undefined until updateInfo
    isConnected,       \* this.isConnected
    info,              \* infoService: FirmwareRevision and Model
    airQuality,        \* airQualityService AirQuality .value
    pm25Density,       \* airQualityService PM2_5Density .value
    pm10Density,       \* airQualityService PM10Density .value
    co2Level,          \* airQualityService CarbonDioxideLevel .value
    temperature,       \* temperatureService CurrentTemperature .value
    timers,            \* number of setInterval timers running
    inflight,          \* pending axios.get requests, in the order issued
    timeoutPending,    \* the 5 s setTimeout has not fired yet
    notFound,          \* number of 'No device found' errors logged
    accepted,          \* history: <<data>> of the reading the five values are
                       \* from, or <<>> when they are from no single reading
    overtaken,         \* history, per pending request: a later one has settled
    last               \* the callback that ran last, its input and its result

vars == <<deviceUrl, firmwareVersion, isConnected, info, airQuality, pm25Density,
          pm10Density, co2Level, temperature, timers, inflight, timeoutPending,
          notFound, accepted, overtaken, last>>

\* The fields of the accessory and its services that outlive a callback.
device == <<deviceUrl, firmwareVersion, isConnected, info, airQuality,
            pm25Density, pm10Density, co2Level, temperature>>

\* The five characteristic values.
stored == <<airQuality, pm25Density, pm10Density, co2Level, temperature>>

-----------------------------------------------------------------------------
\* Bounds of the model.

\* At most this many axios.get requests are pending at once.
MaxInFlight == 2

\* At most this many setInterval timers are started.
MaxTimers == 2

\* Classifier inputs lie within this many tenths of a breakpoint.
Delta == 1

-----------------------------------------------------------------------------
\* Values.

Tenths(whole, tenth) == 10 * whole + tenth

Undefined == "undefined"

SERVICE_COMMUNICATION_FAILURE == "SERVICE_COMMUNICATION_FAILURE"

\* config.serialNumber
serialNumber == "84fce6"

\* `airgradient_${this.config.serialNumber}`
ServiceTag == <<"airgradient_", serialNumber>>

\* String.prototype.includes: needle occurs as a contiguous part of hay.
Includes(hay, needle) ==
    \E i \in 1..(Len(hay) - Len(needle) + 1) :
        SubSeq(hay, i, i + Len(needle) - 1) = needle

\* Bonjour services of type 'airgradient' that can come up.
ServiceNames ==
    { <<"airgradient_", "84fce6">>,
      <<"airgradient_", "84fce6", " (2)">>,
      <<"airgradient_", "d83bda">> }

ServiceHosts == {"192.168.1.20", "192.168.1.21"}

Services == [name : ServiceNames, host : ServiceHosts, port : {"80"}]

\* `http://${service.host}:${service.port}`
Url(service) == <<"http://", service.host, ":", service.port>>

\* `${this.deviceUrl}/measures/current`
MeasuresUrl(url) == url \o <<"/measures/current">>

\* The measurements a response can carry (pm02, pm10, rco2, atmp).
Measurements ==
    { [pm02 |-> Tenths(40, 2), pm10 |-> Tenths(60, 0),  rco2 |-> Tenths(1500, 0),
       atmp |-> Tenths(23, 0)],
      [pm02 |-> Tenths(56, 0), pm10 |-> Tenths(160, 0), rco2 |-> Tenths(600, 0),
       atmp |-> Tenths(19, 8)] }

FirmwareVersions == {"3.0.8", "3.1.1"}

FwModes == {"I-9PSL", "O-1PST"}

\* The firmwareVersion and fwMode a response can carry: two versions, and
\* one version reporting either model.
Firmwares ==
    { f \in [firmwareVersion : FirmwareVersions, fwMode : FwModes] :
        f.firmwareVersion = "3.0.8" \/ f.fwMode = "I-9PSL" }

Boots == {0, 7}

\* AirGradientData: the fields of response.data the accessory reads.
Readings ==
    { [boot |-> b, pm02 |-> m.pm02, pm10 |-> m.pm10, rco2 |-> m.rco2,
       atmp |-> m.atmp, firmwareVersion |-> f.firmwareVersion,
       fwMode |-> f.fwMode] :
        b \in Boots, m \in Measurements, f \in Firmwares }

\* response.data that is no AirGradientData: JSON null, and an object (or a
\* string) that has none of the fields.
MalformedPayloads == {"null", "{}"}

-----------------------------------------------------------------------------
\* transformAirQuality

Max(a, b) == IF a > b THEN a ELSE b

\* transformAirQuality comparing PM2.5 with >= at its rank-2 breakpoint.
transformAirQuality_atLeast(pm2_5, pm10, co2) ==
    LET afterPM25 == IF pm2_5 > Tenths(55, 4) THEN Max(1, 4)
                     ELSE IF pm2_5 > Tenths(35, 4) THEN Max(1, 3)
                     ELSE IF pm2_5 >= Tenths(12, 0) THEN Max(1, 2)
                     ELSE 1
        afterPM10 == IF pm10 > Tenths(254, 0) THEN Max(afterPM25, 4)
                     ELSE IF pm10 > Tenths(154, 0) THEN Max(afterPM25, 3)
                     ELSE IF pm10 > Tenths(54, 0) THEN Max(afterPM25, 2)
                     ELSE afterPM25
        afterCO2  == IF co2 > Tenths(1000, 0) THEN Max(afterPM10, 3)
                     ELSE IF co2 > Tenths(500, 0) THEN Max(afterPM10, 2)
                     ELSE afterPM10
    IN  IF pm2_5 > Tenths(100, 0) THEN 5
        ELSE IF pm10 > Tenths(354, 0) THEN 5
        ELSE IF co2 > Tenths(2000, 0) THEN 5
        ELSE afterCO2

\* transformAirQuality without the CO2 > 500 branch.
transformAirQuality_noCO2Rank2(pm2_5, pm10, co2) ==
    LET afterPM25 == IF pm2_5 > Tenths(55, 4) THEN Max(1, 4)
                     ELSE IF pm2_5 > Tenths(35, 4) THEN Max(1, 3)
                     ELSE IF pm2_5 > Tenths(12, 0) THEN Max(1, 2)
                     ELSE 1
        afterPM10 == IF pm10 > Tenths(254, 0) THEN Max(afterPM25, 4)
                     ELSE IF pm10 > Tenths(154, 0) THEN Max(afterPM25, 3)
                     ELSE IF pm10 > Tenths(54, 0) THEN Max(afterPM25, 2)
                     ELSE afterPM25
        afterCO2  == IF co2 > Tenths(1000, 0) THEN Max(afterPM10, 3)
                     ELSE afterPM10
    IN  IF pm2_5 > Tenths(100, 0) THEN 5
        ELSE IF pm10 > Tenths(354, 0) THEN 5
        ELSE IF co2 > Tenths(2000, 0) THEN 5
        ELSE afterCO2

\* transformAirQuality giving CO2 the rank-4 band the PM scales have.
transformAirQuality_co2Rank4(pm2_5, pm10, co2) ==
    LET afterPM25 == IF pm2_5 > Tenths(55, 4) THEN Max(1, 4)
                     ELSE IF pm2_5 > Tenths(35, 4) THEN Max(1, 3)
                     ELSE IF pm2_5 > Tenths(12, 0) THEN Max(1, 2)
                     ELSE 1
        afterPM10 == IF pm10 > Tenths(254, 0) THEN Max(afterPM25, 4)
                     ELSE IF pm10 > Tenths(154, 0) THEN Max(afterPM25, 3)
                     ELSE IF pm10 > Tenths(54, 0) THEN Max(afterPM25, 2)
                     ELSE afterPM25
        afterCO2  == IF co2 > Tenths(1000, 0) THEN Max(afterPM10, 4)
                     ELSE IF co2 > Tenths(500, 0) THEN Max(afterPM10, 2)
                     ELSE afterPM10
    IN  IF pm2_5 > Tenths(100, 0) THEN 5
        ELSE IF pm10 > Tenths(354, 0) THEN 5
        ELSE IF co2 > Tenths(2000, 0) THEN 5
        ELSE afterCO2

transformAirQuality(pm2_5, pm10, co2) ==
    LET afterPM25 == IF pm2_5 > Tenths(55, 4) THEN Max(1, 4)
                     ELSE IF pm2_5 > Tenths(35, 4) THEN Max(1, 3)
                     ELSE IF pm2_5 > Tenths(12, 0) THEN Max(1, 2)
                     ELSE 1
        afterPM10 == IF pm10 > Tenths(254, 0) THEN Max(afterPM25, 4)
                     ELSE IF pm10 > Tenths(154, 0) THEN Max(afterPM25, 3)
                     ELSE IF pm10 > Tenths(54, 0) THEN Max(afterPM25, 2)
                     ELSE afterPM25
        afterCO2  == IF co2 > Tenths(1000, 0) THEN Max(afterPM10, 3)
                     ELSE IF co2 > Tenths(500, 0) THEN Max(afterPM10, 2)
                     ELSE afterPM10
    IN  IF pm2_5 > Tenths(100, 0) THEN 5
        ELSE IF pm10 > Tenths(354, 0) THEN 5
        ELSE IF co2 > Tenths(2000, 0) THEN 5
        ELSE afterCO2

-----------------------------------------------------------------------------
\* The constructor.

\* The constructor starting out connected.
Init_startsConnected ==
    /\ deviceUrl = <<>>
    /\ firmwareVersion = Undefined
    /\ isConnected = TRUE
    /\ info = [FirmwareRevision |-> Undefined, Model |-> Undefined]
    /\ airQuality = 0
    /\ pm25Density = 0
    /\ pm10Density = 0
    /\ co2Level = 0
    /\ temperature = 0
    /\ timers = 0
    /\ inflight = <<>>
    /\ timeoutPending = TRUE
    /\ notFound = 0
    /\ accepted = <<>>
    /\ overtaken = <<>>
    /\ last = [op |-> "constructor"]

Init ==
    /\ deviceUrl = <<>>
    /\ firmwareVersion = Undefined
    /\ isConnected = FALSE
    /\ info = [FirmwareRevision |-> Undefined, Model |-> Undefined]
    /\ airQuality = 0
    /\ pm25Density = 0
    /\ pm10Density = 0
    /\ co2Level = 0
    /\ temperature = 0
    /\ timers = 0
    /\ inflight = <<>>
    /\ timeoutPending = TRUE
    /\ notFound = 0
    /\ accepted = <<>>
    /\ overtaken = <<>>
    /\ last = [op |-> "constructor"]

-----------------------------------------------------------------------------
\* pollAirGradient

\* Up to the await: the request for the current deviceUrl is sent.
PollStart(url, pending) == Append(pending, MeasuresUrl(url))

RemoveAt(s, i) == SubSeq(s, 1, i - 1) \o SubSeq(s, i + 1, Len(s))

\* Request i settles: the requests sent before it are now overtaken.
Settle(flags, i) ==
    [j \in 1..(Len(flags) - 1) |-> IF j < i THEN TRUE ELSE flags[j + 1]]

updateInfo(data) ==
    /\ firmwareVersion' = data.firmwareVersion
    /\ info' = [FirmwareRevision |-> data.firmwareVersion, Model |-> data.fwMode]

\* updateCharacteristics with the temperature update left out.
updateCharacteristics_noTemperature(data) ==
    IF data.boot = 0
    THEN UNCHANGED <<firmwareVersion, info, stored>>
    ELSE /\ IF data.firmwareVersion # firmwareVersion
            THEN updateInfo(data)
            ELSE UNCHANGED <<firmwareVersion, info>>
         /\ airQuality' = transformAirQuality(data.pm02, data.pm10, data.rco2)
         /\ pm25Density' = data.pm02
         /\ pm10Density' = data.pm10
         /\ co2Level' = data.rco2
         /\ UNCHANGED temperature

\* updateCharacteristics calling updateInfo on every reading applied.
updateCharacteristics_alwaysInfo(data) ==
    IF data.boot = 0
    THEN UNCHANGED <<firmwareVersion, info, stored>>
    ELSE /\ updateInfo(data)
         /\ airQuality' = transformAirQuality(data.pm02, data.pm10, data.rco2)
         /\ pm25Density' = data.pm02
         /\ pm10Density' = data.pm10
         /\ co2Level' = data.rco2
         /\ temperature' = data.atmp

updateCharacteristics(data) ==
    IF data.boot = 0
    THEN UNCHANGED <<firmwareVersion, info, stored>>
    ELSE /\ IF data.firmwareVersion # firmwareVersion
            THEN updateInfo(data)
            ELSE UNCHANGED <<firmwareVersion, info>>
         /\ airQuality' = transformAirQuality(data.pm02, data.pm10, data.rco2)
         /\ pm25Density' = data.pm02
         /\ pm10Density' = data.pm10
         /\ co2Level' = data.rco2
         /\ temperature' = data.atmp

\* The await resumes with a response: the try block runs to its end.
PollResolve(i, data) ==
    /\ i \in 1..Len(inflight)
    /\ inflight' = RemoveAt(inflight, i)
    /\ updateCharacteristics(data)
    /\ isConnected' = TRUE
    /\ accepted' = IF data.boot = 0 THEN accepted ELSE <<data>>
    /\ overtaken' = Settle(overtaken, i)
    /\ last' = [op |-> "resolve", data |-> data,
                info |-> (data.boot # 0 /\ data.firmwareVersion # firmwareVersion),
                late |-> overtaken[i]]
    /\ UNCHANGED <<deviceUrl, timers, timeoutPending, notFound>>

\* updateCharacteristics on data whose fields are all undefined.
\* undefined === 0 is false, so the values are pushed; undefined !==
\* this.firmwareVersion runs updateInfo unless firmwareVersion is undefined
\* already; every comparison of transformAirQuality is false on undefined, so
\* the rank is 1; a characteristic handed undefined keeps its value.
updateCharacteristicsUndefined ==
    /\ firmwareVersion' = Undefined
    /\ airQuality' = 1
    /\ UNCHANGED <<info, pm25Density, pm10Density, co2Level, temperature>>

\* The await resumes with a response whose data is malformed. Reading
\* data.boot of null throws, which the catch block takes; any other payload
\* runs the try block to its end.
PollMalformed(i, payload) ==
    /\ i \in 1..Len(inflight)
    /\ inflight' = RemoveAt(inflight, i)
    /\ IF payload = "null"
       THEN /\ isConnected' = FALSE
                    /\ UNCHANGED <<firmwareVersion, info, stored, accepted>>
       ELSE /\ updateCharacteristicsUndefined
            /\ isConnected' = TRUE
                    /\ accepted' = <<>>
    /\ overtaken' = Settle(overtaken, i)
    /\ last' = [op |-> "malformed", payload |-> payload, late |-> overtaken[i]]
    /\ UNCHANGED <<deviceUrl, timers, timeoutPending, notFound>>

\* The catch block clearing the values as well.
PollReject_clears(i) ==
    /\ i \in 1..Len(inflight)
    /\ inflight' = RemoveAt(inflight, i)
    /\ isConnected' = FALSE
    /\ airQuality' = 0
    /\ pm25Density' = 0
    /\ pm10Density' = 0
    /\ co2Level' = 0
    /\ temperature' = 0
    /\ overtaken' = Settle(overtaken, i)
    /\ last' = [op |-> "reject", late |-> overtaken[i],
                again |-> (last.op = "reject")]
    /\ UNCHANGED <<deviceUrl, firmwareVersion, info, timers, timeoutPending,
                   notFound, accepted>>

\* The catch block giving up: the poll timers are cleared.
PollReject_stopsPolling(i) ==
    /\ i \in 1..Len(inflight)
    /\ inflight' = RemoveAt(inflight, i)
    /\ isConnected' = FALSE
    /\ timers' = 0
    /\ overtaken' = Settle(overtaken, i)
    /\ last' = [op |-> "reject", late |-> overtaken[i],
                again |-> (last.op = "reject")]
    /\ UNCHANGED <<deviceUrl, firmwareVersion, info, stored, timeoutPending,
                   notFound, accepted>>

\* The await throws: the catch block runs.
PollReject(i) ==
    /\ i \in 1..Len(inflight)
    /\ inflight' = RemoveAt(inflight, i)
    /\ isConnected' = FALSE
    /\ overtaken' = Settle(overtaken, i)
    /\ last' = [op |-> "reject", late |-> overtaken[i],
                again |-> (last.op = "reject")]
    /\ UNCHANGED <<deviceUrl, firmwareVersion, info, stored, timers,
                   timeoutPending, notFound, accepted>>

-----------------------------------------------------------------------------
\* discoverDevice

\* The 'up' callback polling before it stores the address.
BrowserUp_pollsFirst(service) ==
    /\ IF Includes(service.name, ServiceTag)
       THEN /\ Len(inflight) < MaxInFlight
            /\ timers < MaxTimers
            /\ inflight' = PollStart(deviceUrl, inflight)
            /\ deviceUrl' = Url(service)
            /\ overtaken' = Append(overtaken, FALSE)
            /\ timers' = timers + 1
       ELSE UNCHANGED <<deviceUrl, inflight, overtaken, timers>>
    /\ last' = [op |-> "up", service |-> service]
    /\ UNCHANGED <<firmwareVersion, isConnected, info, stored, timeoutPending,
                   notFound, accepted>>

\* browser.on('up', ...)
BrowserUp(service) ==
    /\ IF Includes(service.name, ServiceTag)
       THEN /\ Len(inflight) < MaxInFlight
            /\ timers < MaxTimers
            /\ deviceUrl' = Url(service)
            /\ inflight' = PollStart(deviceUrl', inflight)
            /\ overtaken' = Append(overtaken, FALSE)
            /\ timers' = timers + 1
       ELSE UNCHANGED <<deviceUrl, inflight, overtaken, timers>>
    /\ last' = [op |-> "up", service |-> service]
    /\ UNCHANGED <<firmwareVersion, isConnected, info, stored, timeoutPending,
                   notFound, accepted>>

\* setInterval(() => this.pollAirGradient(), this.config.pollDelay)
IntervalTick ==
    /\ timers > 0
    /\ Len(inflight) < MaxInFlight
    /\ inflight' = PollStart(deviceUrl, inflight)
    /\ overtaken' = Append(overtaken, FALSE)
    /\ last' = [op |-> "tick"]
    /\ UNCHANGED <<device, timers, timeoutPending, notFound, accepted>>

\* The not-found check on a repeating timer instead of a one-shot one.
NotFoundTimeout_repeating ==
    /\ timeoutPending
    /\ UNCHANGED timeoutPending
    /\ notFound' = IF deviceUrl = <<>> THEN notFound + 1 ELSE notFound
    /\ last' = [op |-> "timeout"]
    /\ UNCHANGED <<device, timers, inflight, accepted, overtaken>>

\* setTimeout(() => { if (!this.deviceUrl) log.error(...) }, 5000)
NotFoundTimeout ==
    /\ timeoutPending
    /\ timeoutPending' = FALSE
    /\ notFound' = IF deviceUrl = <<>> THEN notFound + 1 ELSE notFound
    /\ last' = [op |-> "timeout"]
    /\ UNCHANGED <<device, timers, inflight, accepted, overtaken>>

-----------------------------------------------------------------------------
\* The onGet handlers: a value, or a thrown HapStatusError.

Value(v) == [ok |-> TRUE, value |-> v]

HapStatusError(status) == [ok |-> FALSE, status |-> status]

handleAirQualityGet ==
    IF isConnected THEN Value(airQuality)
    ELSE HapStatusError(SERVICE_COMMUNICATION_FAILURE)

handleCarbonDioxideLevelGet ==
    IF isConnected THEN Value(co2Level)
    ELSE HapStatusError(SERVICE_COMMUNICATION_FAILURE)

handlePM25Get ==
    IF isConnected THEN Value(pm25Density)
    ELSE HapStatusError(SERVICE_COMMUNICATION_FAILURE)

\* handlePM10Get without the isConnected test.
handlePM10Get_unguarded == Value(pm10Density)

handlePM10Get ==
    IF isConnected THEN Value(pm10Density)
    ELSE HapStatusError(SERVICE_COMMUNICATION_FAILURE)

handleTemperatureGet ==
    IF isConnected THEN Value(temperature)
    ELSE HapStatusError(SERVICE_COMMUNICATION_FAILURE)

\* addHandlers: the handler bound to each characteristic.
Handler(characteristic) ==
    CASE characteristic = "AirQuality" -> handleAirQualityGet
      [] characteristic = "CarbonDioxideLevel" -> handleCarbonDioxideLevelGet
      [] characteristic = "PM2_5Density" -> handlePM25Get
      [] characteristic = "PM10Density" -> handlePM10Get
      [] characteristic = "CurrentTemperature" -> handleTemperatureGet

Characteristics ==
    {"AirQuality", "CarbonDioxideLevel", "PM2_5Density", "PM10Density",
     "CurrentTemperature"}

\* HomeKit reads a characteristic.
Get(characteristic) ==
    /\ last' = [op |-> "get", characteristic |-> characteristic,
                result |-> Handler(characteristic)]
    /\ UNCHANGED <<device, timers, inflight, timeoutPending, notFound, accepted,
                   overtaken>>

-----------------------------------------------------------------------------

Next ==
    \/ IntervalTick
    \/ NotFoundTimeout
    \/ \E service \in Services : BrowserUp(service)
    \/ \E i \in 1..MaxInFlight, data \in Readings : PollResolve(i, data)
    \/ \E i \in 1..MaxInFlight : PollReject(i)
    \/ \E i \in 1..MaxInFlight, payload \in MalformedPayloads :
           PollMalformed(i, payload)
    \/ \E characteristic \in Characteristics : Get(characteristic)

Spec == Init /\ [][Next]_vars

-----------------------------------------------------------------------------
\* transformAirQuality on its own: a call with arguments drawn from the
\* values around every breakpoint, and its return.

Near(breakpoint) == { breakpoint + d : d \in (0 - Delta)..Delta }

PM25Inputs ==
    {0, Tenths(13, 0), Tenths(56, 0), Tenths(101, 0)}
        \cup Near(Tenths(12, 0)) \cup Near(Tenths(35, 4))
        \cup Near(Tenths(55, 4)) \cup Near(Tenths(100, 0))

PM10Inputs ==
    {0, Tenths(160, 0), Tenths(355, 0)}
        \cup Near(Tenths(54, 0)) \cup Near(Tenths(154, 0))
        \cup Near(Tenths(254, 0)) \cup Near(Tenths(354, 0))

CO2Inputs ==
    {0, Tenths(600, 0), Tenths(999, 0), Tenths(1500, 0), Tenths(2001, 0)}
        \cup Near(Tenths(500, 0)) \cup Near(Tenths(1000, 0))
        \cup Near(Tenths(2000, 0))

InitClassify ==
    /\ deviceUrl = <<>>
    /\ firmwareVersion = Undefined
    /\ isConnected = FALSE
    /\ info = [FirmwareRevision |-> Undefined, Model |-> Undefined]
    /\ airQuality = 0
    /\ pm25Density = 0
    /\ pm10Density = 0
    /\ co2Level = 0
    /\ temperature = 0
    /\ timers = 0
    /\ inflight = <<>>
    /\ timeoutPending = TRUE
    /\ notFound = 0
    /\ accepted = <<>>
    /\ overtaken = <<>>
    /\ \E a \in PM25Inputs, b \in PM10Inputs, c \in CO2Inputs :
           last = [op |-> "transformAirQuality", pm2_5 |-> a, pm10 |-> b,
                   co2 |-> c, returned |-> FALSE, rank |-> 0]

Classify ==
    /\ last.op = "transformAirQuality"
    /\ ~last.returned
    /\ last' = [last EXCEPT !.returned = TRUE,
                            !.rank = transformAirQuality(last.pm2_5, last.pm10,
                                                         last.co2)]
    /\ UNCHANGED <<device, timers, inflight, timeoutPending, notFound, accepted,
                   overtaken>>

NextClassify == Classify

SpecClassify == InitClassify /\ [][NextClassify]_vars

-----------------------------------------------------------------------------
\* What a read of each characteristic is expected to give.

StoredValue(characteristic) ==
    CASE characteristic = "AirQuality" -> airQuality
      [] characteristic = "CarbonDioxideLevel" -> co2Level
      [] characteristic = "PM2_5Density" -> pm25Density
      [] characteristic = "PM10Density" -> pm10Density
      [] characteristic = "CurrentTemperature" -> temperature

\* C1: a response with boot = 0 changes nothing of the device state:
\* deviceUrl, firmwareVersion, isConnected and the five values are the same
\* before and after pollAirGradient completes with it.
C1_BootZeroIsNoOp ==
    [][(last'.op = "resolve" /\ last'.data.boot = 0) =>
          UNCHANGED <<deviceUrl, firmwareVersion, isConnected, stored>>]_vars

\* C2: at most one repeating poll timer exists.
C2_OnePollLoop == timers <= 1

\* C3: at most one fetch is in flight.
C3_NoOverlappingFetches == Len(inflight) <= 1

\* The values a reading puts into the five characteristics.
ValuesOf(data) ==
    <<transformAirQuality(data.pm02, data.pm10, data.rco2), data.pm02,
      data.pm10, data.rco2, data.atmp>>

ExpectedValue(characteristic, data) ==
    CASE characteristic = "AirQuality" ->
             transformAirQuality(data.pm02, data.pm10, data.rco2)
      [] characteristic = "CarbonDioxideLevel" -> data.rco2
      [] characteristic = "PM2_5Density" -> data.pm02
      [] characteristic = "PM10Density" -> data.pm10
      [] characteristic = "CurrentTemperature" -> data.atmp

\* C4: a read of any of the five characteristics returns the stored value
\* when isConnected holds and throws SERVICE_COMMUNICATION_FAILURE when it
\* does not, and a read changes nothing of the device state.
C4_ReadsFollowIsConnected ==
    /\ [](last.op = "get" =>
            last.result =
                IF isConnected THEN Value(StoredValue(last.characteristic))
                ELSE HapStatusError(SERVICE_COMMUNICATION_FAILURE))
    /\ [][last'.op = "get" =>
            UNCHANGED <<device, timers, inflight, timeoutPending, notFound>>]_vars

C4_Witness ==
    /\ last.op = "get"
    /\ last.characteristic = "PM10Density"
    /\ ~isConnected
    /\ accepted # <<>>
    /\ ~last.result.ok

\* C5: right after pollAirGradient completes with a response whose boot is
\* not 0, isConnected holds and each of the five reads returns that
\* response's value: the rank of (pm02, pm10, rco2), pm02, pm10, rco2, atmp.
C5_AcceptedReadingIsServed ==
    (last.op = "resolve" /\ last.data.boot # 0) =>
        /\ isConnected
        /\ stored = ValuesOf(last.data)
        /\ \A c \in Characteristics :
               Handler(c) = Value(ExpectedValue(c, last.data))

C5_Witness ==
    /\ last.op = "resolve"
    /\ last.data.boot # 0
    /\ airQuality = 4
    /\ temperature = Tenths(19, 8)
    /\ handleTemperatureGet = Value(Tenths(19, 8))

\* C6: when the fetch fails, isConnected becomes false and every read throws
\* SERVICE_COMMUNICATION_FAILURE, while the five values and firmwareVersion
\* stay what they were: those of the last reading applied.
C6_FailureKeepsValues ==
    /\ [][last'.op = "reject" =>
            /\ ~isConnected'
            /\ UNCHANGED <<stored, firmwareVersion>>
            /\ \A c \in Characteristics :
                   Handler(c)' = HapStatusError(SERVICE_COMMUNICATION_FAILURE)]_vars
    /\ [](accepted # <<>> =>
            /\ stored = ValuesOf(accepted[1])
            /\ firmwareVersion = accepted[1].firmwareVersion)

C6_Witness ==
    /\ last.op = "reject"
    /\ ~isConnected
    /\ accepted # <<>>
    /\ stored = ValuesOf(accepted[1])
    /\ airQuality = 3

\* A matching service coming up now stores its address, sends one request
\* and starts one timer.
LateMatchStillPolls ==
    \A service \in Services :
        Includes(service.name, ServiceTag) =>
            ENABLED (/\ BrowserUp(service)
                     /\ deviceUrl' = Url(service)
                     /\ inflight' = <<MeasuresUrl(Url(service))>>
                     /\ timers' = 1)

\* C7: when no matching service has come up before the 5 s timeout fires,
\* 'No device found' is logged exactly once and never again, no request has
\* been sent, and a matching service coming up later is still taken.
C7_NotFoundOnceThenLateMatch ==
    /\ notFound <= 1
    /\ timeoutPending => notFound = 0
    /\ deviceUrl = <<>> =>
          /\ inflight = <<>>
          /\ timers = 0
          /\ ~isConnected
          /\ accepted = <<>>
          /\ LateMatchStillPolls
    /\ (~timeoutPending /\ deviceUrl = <<>>) => notFound = 1

C7_Witness ==
    /\ notFound = 1
    /\ ~timeoutPending
    /\ deviceUrl # <<>>
    /\ timers = 1
    /\ isConnected
    /\ accepted # <<>>

-----------------------------------------------------------------------------
\* The breakpoint table, one scale at a time.

RankPM25(v) ==
    IF v > Tenths(100, 0) THEN 5
    ELSE IF v > Tenths(55, 4) THEN 4
    ELSE IF v > Tenths(35, 4) THEN 3
    ELSE IF v > Tenths(12, 0) THEN 2
    ELSE 1

RankPM10(v) ==
    IF v > Tenths(354, 0) THEN 5
    ELSE IF v > Tenths(254, 0) THEN 4
    ELSE IF v > Tenths(154, 0) THEN 3
    ELSE IF v > Tenths(54, 0) THEN 2
    ELSE 1

RankCO2(v) ==
    IF v > Tenths(2000, 0) THEN 5
    ELSE IF v > Tenths(1000, 0) THEN 3
    ELSE IF v > Tenths(500, 0) THEN 2
    ELSE 1

Returned == last.op = "transformAirQuality" /\ last.returned

ReturnedFor(pm2_5, pm10, co2) ==
    /\ Returned
    /\ last.pm2_5 = Tenths(pm2_5, 0)
    /\ last.pm10 = Tenths(pm10, 0)
    /\ last.co2 = Tenths(co2, 0)

\* C8: transformAirQuality returns the greatest of the three per-scale ranks
\* of the breakpoint table; the result lies in 1..5 and is 5 whenever one
\* measurement exceeds its top breakpoint.
C8_RankIsMaxOfScales ==
    Returned =>
        /\ last.rank = Max(RankPM25(last.pm2_5),
                           Max(RankPM10(last.pm10), RankCO2(last.co2)))
        /\ last.rank \in 1..5
        /\ (\/ last.pm2_5 > Tenths(100, 0)
            \/ last.pm10 > Tenths(354, 0)
            \/ last.co2 > Tenths(2000, 0)) => last.rank = 5

C8_Witness ==
    /\ ReturnedFor(56, 160, 600)
    /\ last.rank = 4

\* C9 as stated: transformAirQuality(0, 0, 999) is 1, (13, 0, 0) gives 2
\* and (0, 0, 1500) gives 3.
C9_AsStated ==
    /\ ReturnedFor(0, 0, 999) => last.rank = 1
    /\ ReturnedFor(13, 0, 0) => last.rank = 2
    /\ ReturnedFor(0, 0, 1500) => last.rank = 3

\* C9, amended: transformAirQuality(0, 0, 999) is 2, since 999 exceeds the
\* CO2 breakpoint 500; (13, 0, 0) gives 2 and (0, 0, 1500) gives 3.
C9_Amended ==
    /\ ReturnedFor(0, 0, 999) => last.rank = 2
    /\ ReturnedFor(13, 0, 0) => last.rank = 2
    /\ ReturnedFor(0, 0, 1500) => last.rank = 3

C9_Witness ==
    /\ ReturnedFor(0, 0, 999)
    /\ last.rank = 2

\* C10: CO2 has no rank-4 band. With pm25 <= 55.4 and pm10 <= 254 the result
\* is never 4; with pm25 <= 35.4 and pm10 <= 154 every CO2 value above 1000
\* and up to 2000 gives exactly 3, and CO2 of exactly 1000 gives less than 3.
C10_NoCO2Rank4 ==
    Returned =>
        /\ (last.pm2_5 <= Tenths(55, 4) /\ last.pm10 <= Tenths(254, 0)) =>
               last.rank # 4
        /\ (/\ last.pm2_5 <= Tenths(35, 4)
            /\ last.pm10 <= Tenths(154, 0)
            /\ last.co2 > Tenths(1000, 0)
            /\ last.co2 <= Tenths(2000, 0)) => last.rank = 3
        /\ (/\ last.pm2_5 <= Tenths(35, 4)
            /\ last.pm10 <= Tenths(154, 0)
            /\ last.co2 = Tenths(1000, 0)) => last.rank < 3

C10_Witness ==
    /\ Returned
    /\ last.pm2_5 = Tenths(35, 4)
    /\ last.pm10 = Tenths(154, 0)
    /\ last.co2 = Tenths(2000, 0)
    /\ last.rank = 3

-----------------------------------------------------------------------------
\* C11: once deviceUrl has been set, no later event changes it.
C11_AddressImmutable ==
    [][deviceUrl # <<>> => deviceUrl' = deviceUrl]_vars

\* A pending request answered now with a reading whose boot is not 0
\* connects the monitor with that reading's values.
RecoveryPossible ==
    \A i \in 1..Len(inflight) : \A data \in Readings :
        data.boot # 0 =>
            ENABLED (/\ PollResolve(i, data)
                     /\ isConnected'
                     /\ stored' = ValuesOf(data))

\* C12: a failed fetch only sets isConnected to false; the poll timers are
\* never stopped and keep sending requests after any number of failures in a
\* row, and a later response with boot # 0 connects the monitor again with
\* that response's values.
C12_FailuresNeverStopPolling ==
    /\ [][/\ timers' >= timers
          /\ last'.op = "reject" => (~isConnected' /\ timers' = timers)]_vars
    /\ [](deviceUrl # <<>> =>
            /\ timers >= 1
            /\ Len(inflight) < MaxInFlight => ENABLED IntervalTick
            /\ ~isConnected => RecoveryPossible)
    /\ []((last.op = "resolve" /\ last.data.boot # 0) =>
            (isConnected /\ stored = ValuesOf(last.data)))

C12_Witness ==
    /\ last.op = "reject"
    /\ last.again
    /\ ~isConnected
    /\ accepted # <<>>
    /\ timers = 1
    /\ ENABLED IntervalTick

\* C13: a response whose payload does not decode into a reading sets
\* isConnected to false and overwrites no stored value and pushes nothing.
C13_MalformedIsFailure ==
    [][last'.op = "malformed" =>
          (~isConnected' /\ UNCHANGED <<stored, firmwareVersion, info>>)]_vars

\* C14: no request is sent while deviceUrl is unset, and none to an unset
\* address; a service whose name does not contain the tag stores no address
\* and starts no timer; the first matching service has its address stored,
\* one request sent to that address at once and one timer started.
C14_PollingStartsOnMatch ==
    /\ [](/\ deviceUrl = <<>> => (inflight = <<>> /\ timers = 0)
          /\ \A i \in 1..Len(inflight) : inflight[i] # MeasuresUrl(<<>>))
    /\ [][last'.op = "up" =>
            IF Includes(last'.service.name, ServiceTag)
            THEN deviceUrl = <<>> =>
                    /\ deviceUrl' = Url(last'.service)
                    /\ inflight' = <<MeasuresUrl(Url(last'.service))>>
                    /\ timers' = 1
            ELSE UNCHANGED <<deviceUrl, inflight, timers>>]_vars

C14_Witness ==
    /\ last.op = "up"
    /\ last.service.name # ServiceTag
    /\ Includes(last.service.name, ServiceTag)
    /\ deviceUrl = Url(last.service)
    /\ inflight = <<MeasuresUrl(deviceUrl)>>
    /\ timers = 1

\* C15: a reading with boot # 0 leaves firmwareVersion equal to its own; it
\* sets FirmwareRevision and Model when its firmwareVersion differs from the
\* stored one and leaves them alone when it does not; a reading with
\* boot = 0 and a failed fetch change neither.
C15_InfoOnFirmwareChange ==
    [][/\ (last'.op = "resolve" /\ last'.data.boot # 0) =>
             /\ firmwareVersion' = last'.data.firmwareVersion
             /\ IF last'.data.firmwareVersion # firmwareVersion
                THEN info' = [FirmwareRevision |-> last'.data.firmwareVersion,
                              Model |-> last'.data.fwMode]
                ELSE UNCHANGED info
       /\ (last'.op = "resolve" /\ last'.data.boot = 0) =>
             UNCHANGED <<firmwareVersion, info>>
       /\ last'.op = "reject" => UNCHANGED <<firmwareVersion, info>>]_vars

C15_Witness ==
    /\ last.op = "resolve"
    /\ last.data.boot # 0
    /\ ~last.info
    /\ firmwareVersion = last.data.firmwareVersion
    /\ info.FirmwareRevision = firmwareVersion
    /\ info.Model # last.data.fwMode

\* C16: whenever a read can succeed, the five stored values are those of one
\* and the same reading, and the rank is that of the stored PM2.5, PM10 and
\* CO2.
C16_ReadsSeeOneReading ==
    isConnected =>
        /\ \E data \in Readings : data.boot # 0 /\ stored = ValuesOf(data)
        /\ airQuality = transformAirQuality(pm25Density, pm10Density, co2Level)

\* C17: whenever isConnected holds, a reading with boot # 0 has been applied
\* and the stored values are its values; no read succeeds before that.
C17_ConnectedMeansAccepted ==
    /\ isConnected =>
          /\ accepted # <<>>
          /\ accepted[1].boot # 0
          /\ stored = ValuesOf(accepted[1])
    /\ (last.op = "get" /\ last.result.ok) => accepted # <<>>

\* C18: a response to a request that was sent before one that has already
\* settled changes neither isConnected nor the stored values.
C18_LatestFetchWins ==
    [][(last'.op \in {"resolve", "reject", "malformed"} /\ last'.late) =>
          UNCHANGED <<isConnected, stored, firmwareVersion, info>>]_vars

\* C19: the accessory starts disconnected; isConnected implies that
\* deviceUrl is set, and it becomes true only when a response arrives and
\* the try block runs to its end; until then, through discovery and after
\* the not-found timeout, every read throws SERVICE_COMMUNICATION_FAILURE.
C19_ConnectedOnlyAfterFetch ==
    /\ [](/\ last.op = "constructor" => ~isConnected
          /\ isConnected => (deviceUrl # <<>> /\ timers >= 1)
          /\ ~isConnected =>
                \A c \in Characteristics :
                    Handler(c) = HapStatusError(SERVICE_COMMUNICATION_FAILURE))
    /\ [][(~isConnected /\ isConnected') =>
            \/ last'.op = "resolve"
            \/ (last'.op = "malformed" /\ last'.payload # "null")]_vars

C19_Witness ==
    /\ deviceUrl = <<>>
    /\ ~timeoutPending
    /\ notFound = 1
    /\ ~isConnected
    /\ last.op = "get"
    /\ last.result = HapStatusError(SERVICE_COMMUNICATION_FAILURE)

====
